---- MODULE Spec2Model ----
(***************************************************************************)
(* The API gateway of src/api_gateway/index.js as a state machine.         *)
(*                                                                         *)
(* One inbound request is handled in one step up to the moment it either   *)
(* is answered or has started its outbound call: the middleware chain      *)
(* (limiter, router, authenticateJWT, circuit.fire) runs in one turn of    *)
(* the event loop.  The outcome of an outbound call (backend reply,        *)
(* network failure, breaker timeout) is a second step.  The breaker is an  *)
(* opossum CircuitBreaker built with circuitOptions, the limiter is        *)
(* express-rate-limit with its in-memory store; options the source does    *)
(* not set keep the libraries' defaults.                                   *)
(*                                                                         *)
(* Requests that are handled together share the event loop: the limiter    *)
(* awaits its store, so the increment made for a request and the decision  *)
(* taken on it can be two steps with other requests' steps in between      *)
(* (Arrive, Decide); Handle is the two in one go.  The outbound request a  *)
(* step sends is recorded with its headers in out.                         *)
(*                                                                         *)
(* Time is counted in ticks of 5 s, the greatest common divisor of the     *)
(* configured durations; every event happens at a tick instant and Advance *)
(* moves the clock.  Timers are kept as the time that remains until they   *)
(* fire; the breaker's rolling window has one bucket per tick.             *)
(***************************************************************************)
EXTENDS Integers, Sequences, FiniteSets, TLC

\* ---------------------------------------------------------------- bounds
MaxInFlight == 2     \* outbound calls in flight at once
MaxFires    == 3     \* calls fired at one breaker within its rolling window
MaxBurst    == 3     \* requests of the client in one window (Spec)
MaxTicks    == 13    \* ticks the clock runs in Spec
MaxOver     == 2     \* requests of one key counted beyond the limit
MaxLight    == 1     \* requests per window of the second client (SpecGate)
MaxOrders   == 2     \* orders the orders service comes to hold
MaxUsers    == 4     \* registrations with the users service, stored or under way

\* ------------------------------------------------------ program constants
windowMs                 == 15 * 60 * 1000
max                      == 100
timeout                  == 5000
errorThresholdPercentage == 50
resetTimeout_Short       == timeout
resetTimeout             == 30000
rollingCountTimeout      == 10000
volumeThreshold          == 0

\* the tick: the greatest common divisor of the program's durations
RECURSIVE Gcd(_, _)
Gcd(a, b) == IF b = 0 THEN a ELSE Gcd(b, a % b)
TickMs        == Gcd(Gcd(timeout, resetTimeout), Gcd(rollingCountTimeout, windowMs))
TimeoutTicks  == timeout \div TickMs
ResetTicks    == resetTimeout \div TickMs
WindowBuckets == rollingCountTimeout \div TickMs
LimiterTicks  == windowMs \div TickMs

Backends == {"users", "orders"}
Keys     == {"ip1", "ip2"}
Routes   == {"/status", "/health", "/v1/auth", "/v1/users", "/v1/orders"}
AuthHeaders == {"none", "basic", "bearer_valid", "bearer_expired", "bearer_tampered"}
BackendStatuses == {200, 404, 500}
\* a header that is not there
Absent   == "-"
\* the payload of a token the users service signed, and the identity headers
\* a client may send of its own
Subjects    == {"u1", "u2"}
RoleLists   == {<<"user">>, <<"user", "admin">>}
ClientIds   == {Absent, "u9"}
ClientRoles == {Absent, "admin"}
Inbound  == [id : Subjects, roles : RoleLists, xUserId : ClientIds, xUserRoles : ClientRoles]
\* a client that sends no identity headers, holding the token of a plain user
Plain    == [id |-> "u1", roles |-> <<"user">>, xUserId |-> Absent, xUserRoles |-> Absent]
Slots    == 1 .. MaxInFlight

VARIABLES
    hits,      \* limiter store: client key -> [totalHits, ttl]
    breaker,   \* backend -> [state, pendingClose, resetIn, window]
    calls,     \* slot -> outbound call in flight
    out,       \* what the last step did: the response written, if any
    waiting,   \* requests whose hit is counted and that await the limiter's decision
    admitted,  \* client key -> requests of its window the limiter has let through
    nextReqId, \* the gateway logger's counter of request ids
    ordersDB,  \* orders service: order id -> order
    usersDB,   \* users service: the users stored
    hashing,   \* users service: registrations suspended on the password hash
    reply      \* what the last step of a service answered

\* the state of the two services behind the gateway
services == <<ordersDB, usersDB, hashing, reply>>
vars == <<hits, breaker, calls, out, waiting, admitted, nextReqId, ordersDB, usersDB,
          hashing, reply>>

\* ------------------------------------------------------------- helpers
Min(a, b) == IF a < b THEN a ELSE b
Max0(a)   == IF a < 0 THEN 0 ELSE a

EmptyBucket == [fires |-> 0, failures |-> 0, successes |-> 0, rejects |-> 0, timeouts |-> 0]

RECURSIVE SumField(_, _, _)
SumField(w, f, i) == IF i = 0 THEN 0 ELSE w[i][f] + SumField(w, f, i - 1)

\* CircuitBreaker.stats: the sums over the buckets of the rolling window
Stats(w) == [fires     |-> SumField(w, "fires", Len(w)),
             failures  |-> SumField(w, "failures", Len(w)),
             successes |-> SumField(w, "successes", Len(w)),
             rejects   |-> SumField(w, "rejects", Len(w)),
             timeouts  |-> SumField(w, "timeouts", Len(w))]

\* Status.increment: an event is counted in the newest bucket
Bump(w, f) == [w EXCEPT ![1][f] = @ + 1]

\* Status.nextBucket (interval): the oldest bucket is dropped, a new one opened
RECURSIVE Rotate(_, _)
Rotate(w, n) == IF n = 0 THEN w
                ELSE Rotate(<<EmptyBucket>> \o SubSeq(w, 1, Len(w) - 1), n - 1)

NoCall == [busy |-> FALSE, backend |-> "-", age |-> 0, trial |-> FALSE, route |-> "-"]
NoHeaders == [authorization |-> Absent, xUserId |-> Absent, xUserRoles |-> Absent]
\* a step's record: the event, the response written (status 0: none), the
\* backend and trial mark of the outbound call it started or settled, the
\* status the backend answered with (0: it did not answer), the route of the
\* request and the headers of the outbound request the step sent
Event(ev, b, trial) ==
    [ev |-> ev, status |-> 0, code |-> "-", body |-> "-", b |-> b, trial |-> trial,
     upstream |-> 0, route |-> "-", sent |-> NoHeaders, rid |-> Absent]
Answer(status, code, body, b, trial, upstream) ==
    [ev |-> "response", status |-> status, code |-> code, body |-> body,
     b |-> b, trial |-> trial, upstream |-> upstream, route |-> "-", sent |-> NoHeaders,
     rid |-> Absent]
NoOut  == Event("init", "-", FALSE)

FreeSlots == {s \in Slots : ~calls[s].busy}
FirstFree == CHOOSE s \in FreeSlots : \A t \in FreeSlots : s <= t
\* ---------------------------------------------------- the two services
\* ids of the orders the orders service can come to hold
OrderIds == 1 .. MaxOrders
NoOrder  == [userId |-> Absent, status |-> "-"]
NoReply  == [op |-> "init", caller |-> Absent, roles |-> <<>>, status |-> 0, code |-> "-",
             orders |-> {}, target |-> 0]

\* ---------------------------------------------------------------- Init
\* new CircuitBreaker(...): closed, nothing counted
InitBreaker == [state |-> "CLOSED", pendingClose |-> FALSE, resetIn |-> 0,
                window |-> [i \in 1 .. WindowBuckets |-> EmptyBucket]]

Init ==
    /\ hits = [k \in Keys |-> [totalHits |-> 0, ttl |-> 0]]
    /\ breaker = [b \in Backends |-> InitBreaker]
    /\ calls = [s \in Slots |-> NoCall]
    /\ out = NoOut
    /\ waiting = {}
    /\ admitted = [k \in Keys |-> 0]
    /\ nextReqId = 0
    /\ ordersDB = [o \in OrderIds |-> NoOrder]
    /\ usersDB = {}
    /\ hashing = {}
    /\ reply = NoReply
Increment_Capped(h) ==
    IF h.ttl = 0 THEN [totalHits |-> 1, ttl |-> LimiterTicks]
    ELSE [totalHits |-> Min(h.totalHits + 1, max + 1), ttl |-> h.ttl]

\* ------------------------------------------------------------- limiter
\* express-rate-limit MemoryStore.increment: a client whose window has run out
\* (or who has none) gets a fresh window, then the hit is counted; the count
\* goes on growing past the limit
Increment(h) ==
    IF h.ttl = 0 THEN [totalHits |-> 1, ttl |-> LimiterTicks]
    ELSE [totalHits |-> h.totalHits + 1, ttl |-> h.ttl]

OverLimit_OffByOne(h) == h.totalHits >= max

\* the limiter middleware's decision: the default handler answers 429 when
\* the count is over the limit
OverLimit(h) == h.totalHits > max

\* --------------------------------------------------------- the breaker
ShouldOpen_AtEquality(br, w) ==
    LET st == Stats(w) IN
    \/ br.state = "HALF_OPEN"
    \/ st.fires > 0 /\ st.failures * 100 >= errorThresholdPercentage * st.fires

\* fail(): the check made when a failure has been recorded
ShouldOpen(br, w) ==
    LET st == Stats(w) IN
    IF st.fires < volumeThreshold /\ br.state # "HALF_OPEN" THEN FALSE
    ELSE \/ br.state = "HALF_OPEN"
         \/ IF st.fires = 0 THEN st.failures > 0
            ELSE st.failures * 100 > errorThresholdPercentage * st.fires

Open_KeepTimer(br) ==
    IF br.state = "OPEN" THEN br
    ELSE [br EXCEPT !.state = "OPEN", !.pendingClose = FALSE]

\* CircuitBreaker.open: no effect on an open breaker; otherwise the reset
\* timer starts
Open(br) ==
    IF br.state = "OPEN" THEN br
    ELSE [br EXCEPT !.state = "OPEN", !.pendingClose = FALSE, !.resetIn = ResetTicks]

\* CircuitBreaker.close: the reset timer is cleared
Close(br) ==
    IF br.state = "CLOSED" THEN br
    ELSE [br EXCEPT !.state = "CLOSED", !.pendingClose = FALSE, !.resetIn = 0]

\* the action resolved: 'success' is counted, a half-open breaker closes
OnSuccess(br) ==
    LET b1 == [br EXCEPT !.window = Bump(@, "successes")]
    IN IF b1.state = "HALF_OPEN" THEN Close(b1) ELSE b1

\* handleError -> fail: 'failure' is counted, then the threshold check
OnFailure(br) ==
    LET b1 == [br EXCEPT !.window = Bump(@, "failures")]
    IN IF ShouldOpen(b1, b1.window) THEN Open(b1) ELSE b1

Rejects_HalfOpenOnly(br) == br.state = "HALF_OPEN" /\ ~br.pendingClose
Rejects_OpenOnly(br) == br.state = "OPEN"

\* the breaker lets a call through when closed or when the trial is pending
Rejects(br) == br.state # "CLOSED" /\ ~br.pendingClose

validateStatus_Strict(status) == status < 400

\* axios validateStatus: the promise resolves for these statuses
validateStatus(status) == status < 500

\* ------------------------------------------------------------- routing
Forwarded == {"/v1/auth", "/v1/users", "/v1/orders"}
Protected == {"/v1/users", "/v1/orders"}
Target(route) == IF route = "/v1/orders" THEN "orders" ELSE "users"

BearerShaped(a) == a \in {"bearer_valid", "bearer_expired", "bearer_tampered"}
\* jwt.verify: err for a token that is expired or whose signature is wrong
VerifyOk(a) == a = "bearer_valid"

\* the body handleServiceRequest's catch writes when err.response is absent,
\* which is also what the fallback value ends in: the then-branch reads
\* serviceResponse.status of the fallback object (undefined), writing it
\* throws, and the catch answers
Unavailable(b, trial, upstream) ==
    Answer(503, "SERVICE_UNAVAILABLE", "envelope", b, trial, upstream)

\* Array.prototype.join(',')
RECURSIVE Join(_)
Join(roles) ==
    IF Len(roles) = 0 THEN ""
    ELSE IF Len(roles) = 1 THEN roles[1]
    ELSE roles[1] \o "," \o Join(Tail(roles))

\* a header value that an `if` takes as set
Truthy(v) == v # Absent /\ v # ""

\* req.headers as the client sent them
Headers(auth, h) ==
    [authorization |-> IF auth = "none" THEN Absent ELSE auth,
     xUserId |-> h.xUserId, xUserRoles |-> h.xUserRoles]

\* authenticateJWT on a verified token: the identity headers are set from
\* the token's payload
Verified(hd, h) == [hd EXCEPT !.xUserId = h.id, !.xUserRoles = Join(h.roles)]

forwardRequest_SpreadHeaders(hd) == hd

\* forwardRequest: the headers of the outbound request, built anew; the
\* identity headers of req.headers are copied when they are set
forwardRequest(hd) ==
    [authorization |-> Absent,
     xUserId    |-> IF Truthy(hd.xUserId) THEN hd.xUserId ELSE Absent,
     xUserRoles |-> IF Truthy(hd.xUserRoles) THEN hd.xUserRoles ELSE Absent]

\* circuit.fire(req)
Fire(b, route, hd) ==
    LET br == breaker[b]
        w1 == Bump(br.window, "fires")
    IN  /\ Stats(br.window).fires < MaxFires
        /\ IF Rejects(br)
           THEN /\ breaker' = [breaker EXCEPT ![b].window = Bump(w1, "rejects")]
                /\ calls' = calls
                /\ out' = [Unavailable(b, FALSE, 0) EXCEPT !.route = route]
           ELSE /\ FreeSlots # {}
                /\ breaker' = [breaker EXCEPT ![b].window = w1, ![b].pendingClose = FALSE]
                /\ calls' = [calls EXCEPT ![FirstFree] =
                                [busy |-> TRUE, backend |-> b, age |-> 0,
                                 trial |-> (br.state = "HALF_OPEN"), route |-> route]]
                /\ out' = [Event("forward", b, br.state = "HALF_OPEN")
                             EXCEPT !.route = route, !.sent = forwardRequest(hd),
                                    !.rid = ToString(nextReqId')]

Respond(status, code, body) ==
    /\ out' = Answer(status, code, body, "-", FALSE, 0)
    /\ UNCHANGED <<breaker, calls>>

Authenticate_Forbidden(route, auth, h) ==
    IF BearerShaped(auth) /\ VerifyOk(auth)
    THEN Fire(Target(route), route, Verified(Headers(auth, h), h))
    ELSE Respond(403, "FORBIDDEN", "envelope")

Authenticate_FallThrough(route, auth, h) ==
    IF BearerShaped(auth)
    THEN IF VerifyOk(auth) THEN Fire(Target(route), route, Verified(Headers(auth, h), h))
         ELSE /\ out' = Answer(403, "FORBIDDEN", "envelope", "-", FALSE, 0)
              /\ breaker' = [breaker EXCEPT ![Target(route)].window = Bump(@, "fires")]
              /\ calls' = calls
    ELSE Respond(401, "UNAUTHORIZED", "envelope")
Authenticate_Unauthorized(route, auth, h) ==
    IF BearerShaped(auth) /\ VerifyOk(auth)
    THEN Fire(Target(route), route, Verified(Headers(auth, h), h))
    ELSE Respond(401, "UNAUTHORIZED", "envelope")

\* authenticateJWT, then the route's handler
Authenticate(route, auth, h) ==
    IF BearerShaped(auth)
    THEN IF VerifyOk(auth) THEN Fire(Target(route), route, Verified(Headers(auth, h), h))
         ELSE Respond(403, "FORBIDDEN", "envelope")
    ELSE Respond(401, "UNAUTHORIZED", "envelope")

\* the routes in the order they are mounted
Route(route, auth, h) ==
    IF route \in {"/status", "/health"} THEN Respond(200, "-", "json")
    ELSE IF route = "/v1/auth" THEN Fire("users", route, Headers(auth, h))
    ELSE Authenticate(route, auth, h)

\* the requests of the key's window let through before this hit was counted
Before(k) == IF hits[k].ttl = 0 THEN 0 ELSE admitted[k]

\* the limiter's decision on a request of key k, taken on h1, the result of
\* the increment made for it, a being the requests let through so far; then
\* the routes
Admit(k, h1, a, route, auth, h) ==
    IF OverLimit(h1)
    THEN /\ Respond(429, "-", "text")
         /\ admitted' = [admitted EXCEPT ![k] = a]
    ELSE /\ Route(route, auth, h)
         /\ admitted' = [admitted EXCEPT ![k] = a + 1]

\* one inbound request whose body express.json() accepted, handled in one
\* go from the limiter on: app.use(limiter) first, then the routes.  The
\* request's id, req.id, is the value the logger's counter has in the step
Handle(k, route, auth, h) ==
    LET h1 == Increment(hits[k]) IN
    /\ h1.totalHits <= max + MaxOver
    /\ hits' = [hits EXCEPT ![k] = h1]
    /\ Admit(k, h1, Before(k), route, auth, h)
    /\ UNCHANGED <<waiting, services>>

\* the same in two steps, as happens when requests are handled together: the
\* limiter awaits the store's increment and decides on its result in a later
\* microtask, other requests' steps coming in between
Arrive(k, route, auth, h) ==
    LET h1 == Increment(hits[k]) IN
    /\ h1.totalHits <= max + MaxOver
    /\ hits' = [hits EXCEPT ![k] = h1]
    /\ admitted' = [admitted EXCEPT ![k] = Before(k)]
    /\ waiting' = waiting \cup {[k |-> k, route |-> route, auth |-> auth, h |-> h, info |-> h1]}
    /\ out' = Event("counted", "-", FALSE)
    /\ UNCHANGED <<breaker, calls, nextReqId, services>>

Decide_Reread(w) ==
    /\ w \in waiting
    /\ waiting' = waiting \ {w}
    /\ hits' = hits
    /\ UNCHANGED <<nextReqId, services>>
    /\ Admit(w.k, hits[w.k], admitted[w.k], w.route, w.auth, w.h)

Decide(w) ==
    /\ w \in waiting
    /\ waiting' = waiting \ {w}
    /\ hits' = hits
    /\ UNCHANGED <<nextReqId, services>>
    /\ Admit(w.k, w.info, admitted[w.k], w.route, w.auth, w.h)

\* the request of a client that sends no identity headers of its own, its
\* id not followed: the logger's counter is left where it is
Request(k, route, auth) == nextReqId' = nextReqId /\ Handle(k, route, auth, Plain)

\* the x-request-id header a client may send of its own
ClientRequestIds == {Absent, "abc"}

\* pino-http's default genReqId: the id the request object has already, or
\* else the next value of the logger's counter, (n + 1) & maxInt, which
\* wraps to 0 after maxInt
maxInt == 2147483647
genReqId(id, n) == IF Truthy(id) THEN id ELSE IF n = maxInt THEN 0 ELSE n + 1

\* one inbound request from the logger on: app.use(logger) gives the request
\* its id, never reading the x-request-id header; a request object that has
\* just come in has no id
Receive(k, route, auth, h, xRequestId) ==
    /\ nextReqId' = genReqId(Absent, nextReqId)
    /\ Handle(k, route, auth, h)

\* an inbound request whose JSON body does not parse: express.json(), mounted
\* before the limiter, passes the error on and the error handler answers
BadBody(k) ==
    /\ out' = Answer(500, "INTERNAL_SERVER_ERROR", "envelope", "-", FALSE, 0)
    /\ UNCHANGED <<hits, breaker, calls, waiting, admitted, nextReqId, services>>

\* what a backend's reply carries as its body: the services answer in JSON,
\* but a path no route of theirs matches gets Express's HTML 404 page
BackendBodies(status) == IF status = 404 THEN {"json", "html"} ELSE {"json"}

\* res.json(serviceResponse.data): axios has parsed a JSON body and it is
\* written out as it was; any other body is a string to axios, and res.json
\* writes the string as a JSON string literal
ResJson(body) == IF body = "json" THEN "backend" ELSE "backend_quoted"
Settle_Retry(s, br1, o) ==
    /\ breaker' = [breaker EXCEPT ![calls[s].backend] = br1]
    /\ calls' = [calls EXCEPT ![s] = IF o.status = 503 THEN [@ EXCEPT !.age = 0] ELSE NoCall]
    /\ out' = [o EXCEPT !.route = calls[s].route]
    /\ UNCHANGED <<hits, waiting, admitted, nextReqId, services>>
Settle_Shared(s, br1, o) ==
    /\ breaker' = [c \in Backends |-> br1]
    /\ calls' = [calls EXCEPT ![s] = NoCall]
    /\ out' = [o EXCEPT !.route = calls[s].route]
    /\ UNCHANGED <<hits, waiting, admitted, nextReqId, services>>

\* ------------------------------------------------ outcome of a call
Settle(s, br1, o) ==
    /\ breaker' = [breaker EXCEPT ![calls[s].backend] = br1]
    /\ calls' = [calls EXCEPT ![s] = NoCall]
    /\ out' = [o EXCEPT !.route = calls[s].route]
    /\ UNCHANGED <<hits, waiting, admitted, nextReqId, services>>

\* the backend answered: axios resolves or rejects by validateStatus
BackendReply(s, status) ==
    /\ calls[s].busy
    /\ LET br == breaker[calls[s].backend] IN
       IF validateStatus(status)
       THEN \E body \in BackendBodies(status) :
               Settle(s, OnSuccess(br),
                      Answer(status, "-", ResJson(body), calls[s].backend, calls[s].trial, status))
       ELSE Settle(s, OnFailure(br), Unavailable(calls[s].backend, calls[s].trial, status))

\* axios rejected without a response
NetworkFailure(s) ==
    /\ calls[s].busy
    /\ Settle(s, OnFailure(breaker[calls[s].backend]),
              Unavailable(calls[s].backend, calls[s].trial, 0))

\* the opossum timer that is never set (timeout: false)
CallTimeout_Off(s) ==
    /\ FALSE
    /\ Settle(s, OnFailure(breaker[calls[s].backend]),
              Unavailable(calls[s].backend, calls[s].trial, 0))

\* the breaker's timeout timer fired before the action settled
CallTimeout(s) ==
    /\ calls[s].busy
    /\ calls[s].age = TimeoutTicks
    /\ LET br == breaker[calls[s].backend] IN
       Settle(s, OnFailure([br EXCEPT !.window = Bump(@, "timeouts")]),
              Unavailable(calls[s].backend, calls[s].trial, 0))

\* the reset timer fired: _halfOpen
ResetTimer(b) ==
    /\ breaker[b].state = "OPEN"
    /\ breaker[b].resetIn = 0
    /\ breaker' = [breaker EXCEPT ![b].state = "HALF_OPEN", ![b].pendingClose = TRUE]
    /\ out' = Event("timer", b, FALSE)
    /\ UNCHANGED <<hits, calls, waiting, admitted, nextReqId, services>>

\* ---------------------------------------------------------------- time
\* d ticks pass and no timer comes due on the way
Advance(d) ==
    /\ \A s \in Slots : calls[s].busy => calls[s].age + d <= TimeoutTicks
    /\ \A b \in Backends : breaker[b].state = "OPEN" => breaker[b].resetIn >= d
    /\ calls' = [s \in Slots |-> IF calls[s].busy THEN [calls[s] EXCEPT !.age = @ + d]
                                 ELSE calls[s]]
    /\ breaker' = [b \in Backends |->
                     [breaker[b] EXCEPT
                        !.resetIn = IF breaker[b].state = "OPEN" THEN @ - d ELSE @,
                        !.window = Rotate(@, Min(d, WindowBuckets))]]
    /\ hits' = [k \in Keys |-> [hits[k] EXCEPT !.ttl = Max0(@ - d)]]
    /\ out' = Event("tick", "-", FALSE)
    /\ UNCHANGED <<waiting, admitted, nextReqId, services>>

\* ----------------------------------------------------- the orders service
\* updateOrderSchema: the statuses an order can be given; a body with
\* another status fails the parse.  The bodies that are sent: one of each kind
OrderStatuses == {"created", "in_progress", "completed", "cancelled"}
UpdateBodies  == {"completed", "shipped"}

\* String.prototype.split(',') on the x-user-roles headers that are sent
SplitLists == {<<"user">>, <<"user", "admin">>, <<"administrator">>}
Split(header) == CHOOSE roles \in SplitLists : Join(roles) = header

\* the identity headers the orders service is called with
OrderCallers == Subjects \cup {Absent}
RolesHeaders == {Absent} \cup {Join(roles) : roles \in SplitLists}

\* Array.prototype.includes
includes(roles, role) == \E i \in DOMAIN roles : roles[i] = role

\* authMiddleware of the orders service: req.user, taken from the headers
user(userId, rolesHeader) ==
    [id |-> userId, roles |-> IF rolesHeader = Absent THEN <<>> ELSE Split(rolesHeader)]
authMiddleware(userId) == Truthy(userId)

Stored(o) == ordersDB[o] # NoOrder
\* an order as a response body shows it
Shown(db, o) == [id |-> o, userId |-> db[o].userId, status |-> db[o].status]

\* uuidv4(): an id no order has yet, the ids taken in the order 1, 2, ...
FreeIds == {o \in OrderIds : ~Stored(o)}
NewId   == CHOOSE o \in FreeIds : \A p \in FreeIds : o <= p

\* the response of the orders service to a request of user u
Replies(op, u, status, code, orders, o) ==
    reply' = [op |-> op, caller |-> u.id, roles |-> u.roles, status |-> status,
              code |-> code, orders |-> orders, target |-> o]

\* the parts of the state the orders service leaves alone
OrdersFrame ==
    UNCHANGED <<hits, breaker, calls, out, waiting, admitted, nextReqId, usersDB, hashing>>

\* a request that authMiddleware or a handler turns down: nothing is stored
Refuses(op, u, status, code, o) ==
    /\ Replies(op, u, status, code, {}, o)
    /\ ordersDB' = ordersDB

\* POST /v1/orders
CreateOrder(userId, rolesHeader, valid) ==
    LET u == user(userId, rolesHeader) IN
    /\ OrdersFrame
    /\ IF ~authMiddleware(userId) THEN Refuses("create", u, 401, "UNAUTHORIZED", 0)
       ELSE IF ~valid THEN Refuses("create", u, 400, "VALIDATION_ERROR", 0)
       ELSE /\ FreeIds # {}
            /\ ordersDB' = [ordersDB EXCEPT ![NewId] = [userId |-> u.id, status |-> "created"]]
            /\ Replies("create", u, 201, "-", {Shown(ordersDB', NewId)}, NewId)

\* GET /v1/orders
ListOrders(userId, rolesHeader) ==
    LET u == user(userId, rolesHeader)
        orders == {o \in OrderIds : Stored(o)}
        own    == {o \in orders : ordersDB[o].userId = u.id}
    IN
    /\ OrdersFrame
    /\ IF ~authMiddleware(userId) THEN Refuses("list", u, 401, "UNAUTHORIZED", 0)
       ELSE /\ ordersDB' = ordersDB
            /\ Replies("list", u, 200, "-",
                       {Shown(ordersDB, o) :
                          o \in IF includes(u.roles, "admin") THEN orders ELSE own}, 0)

\* GET /v1/orders/:orderId
GetOrder(userId, rolesHeader, o) ==
    LET u == user(userId, rolesHeader) IN
    /\ OrdersFrame
    /\ IF ~authMiddleware(userId) THEN Refuses("get", u, 401, "UNAUTHORIZED", o)
       ELSE IF ~Stored(o) THEN Refuses("get", u, 404, "NOT_FOUND", o)
       ELSE IF ordersDB[o].userId # u.id /\ ~includes(u.roles, "admin")
            THEN Refuses("get", u, 403, "FORBIDDEN", o)
       ELSE /\ ordersDB' = ordersDB
            /\ Replies("get", u, 200, "-", {Shown(ordersDB, o)}, o)

\* PUT /v1/orders/:orderId without the check on the owner
UpdateOrder_AnyOwner(userId, rolesHeader, o, status) ==
    LET u == user(userId, rolesHeader) IN
    /\ OrdersFrame
    /\ IF ~authMiddleware(userId) THEN Refuses("update", u, 401, "UNAUTHORIZED", o)
       ELSE IF status \notin OrderStatuses
            THEN Refuses("update", u, 400, "VALIDATION_ERROR", o)
       ELSE IF ~Stored(o) THEN Refuses("update", u, 404, "NOT_FOUND", o)
       ELSE /\ ordersDB' = [ordersDB EXCEPT ![o].status = status]
            /\ Replies("update", u, 200, "-", {Shown(ordersDB', o)}, o)

\* PUT /v1/orders/:orderId: the body is parsed first, then the order is
\* looked up, then the owner is checked
UpdateOrder(userId, rolesHeader, o, status) ==
    LET u == user(userId, rolesHeader) IN
    /\ OrdersFrame
    /\ IF ~authMiddleware(userId) THEN Refuses("update", u, 401, "UNAUTHORIZED", o)
       ELSE IF status \notin OrderStatuses
            THEN Refuses("update", u, 400, "VALIDATION_ERROR", o)
       ELSE IF ~Stored(o) THEN Refuses("update", u, 404, "NOT_FOUND", o)
       ELSE IF ordersDB[o].userId # u.id /\ ~includes(u.roles, "admin")
            THEN Refuses("update", u, 403, "FORBIDDEN", o)
       ELSE /\ ordersDB' = [ordersDB EXCEPT ![o].status = status]
            /\ Replies("update", u, 200, "-", {Shown(ordersDB', o)}, o)

\* DELETE /v1/orders/:orderId: only the owner cancels, an admin does not
DeleteOrder(userId, rolesHeader, o) ==
    LET u == user(userId, rolesHeader) IN
    /\ OrdersFrame
    /\ IF ~authMiddleware(userId) THEN Refuses("delete", u, 401, "UNAUTHORIZED", o)
       ELSE IF ~Stored(o) THEN Refuses("delete", u, 404, "NOT_FOUND", o)
       ELSE IF ordersDB[o].userId # u.id THEN Refuses("delete", u, 403, "FORBIDDEN", o)
       ELSE /\ ordersDB' = [ordersDB EXCEPT ![o].status = "cancelled"]
            /\ Replies("delete", u, 200, "-", {Shown(ordersDB', o)}, o)

\* ------------------------------------------------------ the users service
\* the emails registrations come with
Emails == {"ann@example.com", "bob@example.com"}

\* POST /v1/auth/register runs in two steps, the handler being suspended at
\* `await bcrypt.hash(...)`: other requests are served in between
Registrations == 1 .. MaxUsers
Suspended == {h.req : h \in hashing}
\* a registration that is not under way
NewRegistration == CHOOSE r \in Registrations \ Suspended :
                       \A q \in Registrations \ Suspended : r <= q

\* the parts of the state the users service leaves alone
UsersFrame ==
    UNCHANGED <<hits, breaker, calls, out, waiting, admitted, nextReqId, ordersDB>>

\* the response of the users service to a registration; target is the
\* registration it answers
Registers(status, code, r) ==
    reply' = [NoReply EXCEPT !.op = "register", !.status = status, !.code = code,
                             !.target = r]

\* Object.values(usersDB).some(user => user.email === email)
Taken(email) == \E u \in usersDB : u.email = email

\* register, up to the await: the body is parsed, the email is looked up,
\* and the hash is started
RegisterStart(email, valid) ==
    /\ UsersFrame
    /\ Cardinality(usersDB) + Cardinality(hashing) < MaxUsers
    /\ usersDB' = usersDB
    /\ IF ~valid THEN Registers(400, "VALIDATION_ERROR", 0) /\ hashing' = hashing
       ELSE IF Taken(email) THEN Registers(409, "CONFLICT", 0) /\ hashing' = hashing
       ELSE /\ hashing' = hashing \cup {[req |-> NewRegistration, email |-> email]}
            /\ Registers(0, "-", NewRegistration)

\* register, from the await on: the hash of registration r is there, the
\* user is stored under a new id and the request answered 201
RegisterFinish(r) ==
    /\ UsersFrame
    /\ r \in Suspended
    /\ LET h == CHOOSE g \in hashing : g.req = r IN
         /\ hashing' = hashing \ {h}
         /\ usersDB' = usersDB \cup {[id |-> Cardinality(usersDB) + 1, email |-> h.email]}
    /\ Registers(201, "-", r)

\* ------------------------------------------------------ specifications
InFlight(b) == {s \in Slots : calls[s].busy /\ calls[s].backend = b}
Idle(b) == breaker[b] = InitBreaker /\ InFlight(b) = {}
\* the traffic goes to one backend at a time
OneAtATime(route) ==
    route \in Forwarded => \A b \in Backends \ {Target(route)} : Idle(b)

\* Spec: one client, short on requests, the clock running tick by tick for
\* MaxTicks ticks of the client's window
Next ==
    \/ \E route \in Routes, auth \in AuthHeaders :
          /\ hits["ip1"].totalHits < MaxBurst
          /\ OneAtATime(route)
          /\ Request("ip1", route, auth)
    \/ \E s \in Slots, status \in BackendStatuses : BackendReply(s, status)
    \/ \E s \in Slots : NetworkFailure(s)
    \/ \E s \in Slots : CallTimeout(s)
    \/ \E b \in Backends : ResetTimer(b)
    \/ /\ \A k \in Keys : hits[k].ttl = 0 \/ hits[k].ttl > LimiterTicks - MaxTicks
       /\ Advance(1)

Spec == Init /\ [][Next]_vars

\* SpecGate: the gate under load.  The first client uses its quota up with
\* GET /status and sends anything from there on, the second sends a few
\* requests per window while the first is at its limit; the clock moves by
\* half windows once nothing is pending
Flood(k, route) ==
    IF k = "ip1" THEN hits[k].totalHits < max - MaxOver => route = "/status"
    ELSE /\ hits[k].ttl = 0 \/ hits[k].totalHits < MaxLight
         /\ hits["ip1"].totalHits >= max - MaxOver

\* a call is forwarded once the one before it has settled
Sequential(route) == route \in Forwarded => \A s \in Slots : ~calls[s].busy

NextGate ==
    \/ \E k \in Keys, route \in Routes, auth \in AuthHeaders :
          /\ Flood(k, route)
          /\ OneAtATime(route)
          /\ Sequential(route)
          /\ Request(k, route, auth)
    \/ \E k \in Keys : BadBody(k)
    \/ \E s \in Slots, status \in BackendStatuses : BackendReply(s, status)
    \/ \E s \in Slots : NetworkFailure(s)
    \/ Advance(LimiterTicks \div 2)

SpecGate == Init /\ [][NextGate]_vars
\* SpecForward: one client that sends any request, with any token payload
\* and any identity headers of its own, each call forwarded once the one
\* before it has settled; requests with a body that does not parse among them
NextForward ==
    \/ \E route \in Routes, auth \in AuthHeaders, h \in Inbound :
          /\ hits["ip1"].totalHits < MaxBurst
          /\ Sequential(route)
          /\ nextReqId' = nextReqId
          /\ Handle("ip1", route, auth, h)
    \/ BadBody("ip1")
    \/ \E s \in Slots, status \in BackendStatuses : BackendReply(s, status)
    \/ \E s \in Slots : NetworkFailure(s)

SpecForward == Init /\ [][NextForward]_vars
\* SpecRace: requests handled together.  The client uses its quota up with
\* GET /status and from there on sends that or requests to the public route;
\* the limiter's increment and its decision are separate steps, with up to
\* MaxInFlight requests between their increment and the end of their call,
\* and once the quota is used up the clock runs for one rolling window of
\* the breakers
RaceRoutes == {"/status", "/v1/auth"}

NextRace ==
    \/ \E route \in RaceRoutes :
          /\ Flood("ip1", route)
          /\ Cardinality(waiting) + Cardinality({s \in Slots : calls[s].busy}) < MaxInFlight
          /\ Arrive("ip1", route, "none", Plain)
    \/ \E w \in waiting : Decide(w)
    \/ \E s \in Slots, status \in BackendStatuses : BackendReply(s, status)
    \/ \E s \in Slots : NetworkFailure(s)
    \/ \E s \in Slots : CallTimeout(s)
    \/ /\ waiting = {}
       /\ hits["ip1"].totalHits >= max - MaxOver
       /\ hits["ip1"].ttl > LimiterTicks - WindowBuckets
       /\ Advance(1)

SpecRace == Init /\ [][NextRace]_vars
\* SpecBoth: one client, short on requests, whose calls to the two backends
\* are in flight together; the clock stands still
NextBoth ==
    \/ \E route \in Routes, auth \in AuthHeaders :
          /\ hits["ip1"].totalHits < MaxBurst
          /\ Request("ip1", route, auth)
    \/ \E s \in Slots, status \in BackendStatuses : BackendReply(s, status)
    \/ \E s \in Slots : NetworkFailure(s)

SpecBoth == Init /\ [][NextBoth]_vars

\* SpecIds: one client, short on requests, that sends an x-request-id of
\* its own or none; the clock stands still
NextIds ==
    \/ \E route \in Routes, auth \in AuthHeaders, x \in ClientRequestIds :
          /\ hits["ip1"].totalHits < MaxBurst
          /\ Receive("ip1", route, auth, Plain, x)
    \/ \E s \in Slots, status \in BackendStatuses : BackendReply(s, status)
    \/ \E s \in Slots : NetworkFailure(s)

SpecIds == Init /\ [][NextIds]_vars

\* SpecOrders: the orders service on its own, called with any identity
\* headers, until it holds MaxOrders orders
NextOrders ==
    \/ \E userId \in OrderCallers, rolesHeader \in RolesHeaders, valid \in BOOLEAN :
          CreateOrder(userId, rolesHeader, valid)
    \/ \E userId \in OrderCallers, rolesHeader \in RolesHeaders :
          ListOrders(userId, rolesHeader)
    \/ \E userId \in OrderCallers, rolesHeader \in RolesHeaders, o \in OrderIds :
          GetOrder(userId, rolesHeader, o)
    \/ \E userId \in OrderCallers, rolesHeader \in RolesHeaders, o \in OrderIds,
          status \in UpdateBodies : UpdateOrder(userId, rolesHeader, o, status)
    \/ \E userId \in OrderCallers, rolesHeader \in RolesHeaders, o \in OrderIds :
          DeleteOrder(userId, rolesHeader, o)

SpecOrders == Init /\ [][NextOrders]_vars

\* SpecUsers: the users service on its own, registrations coming in while
\* others are suspended on their hash, until MaxUsers users are stored
NextUsers ==
    \/ \E email \in Emails, valid \in BOOLEAN : RegisterStart(email, valid)
    \/ \E r \in Registrations : RegisterFinish(r)

SpecUsers == Init /\ [][NextUsers]_vars

\* SpecLive: the gateway with its timers.  The client uses its quota up
\* with GET /status and sends anything from there on; the clock runs while
\* a call is in flight or a breaker is open.  Time passes and a timer that
\* is due fires (Node's event loop); a backend need not ever answer
Elapse ==
    /\ \/ \E s \in Slots : calls[s].busy
       \/ \E b \in Backends : breaker[b].state = "OPEN"
    /\ Advance(1)

NextLive ==
    \/ \E route \in Routes, auth \in AuthHeaders :
          /\ Flood("ip1", route)
          /\ OneAtATime(route)
          /\ Request("ip1", route, auth)
    \/ BadBody("ip1")
    \/ \E s \in Slots, status \in BackendStatuses : BackendReply(s, status)
    \/ \E s \in Slots : NetworkFailure(s)
    \/ \E s \in Slots : CallTimeout(s)
    \/ \E b \in Backends : ResetTimer(b)
    \/ Elapse

SpecLive ==
    /\ Init /\ [][NextLive]_vars
    /\ WF_vars(Elapse)
    /\ \A s \in Slots : WF_vars(CallTimeout(s))
    /\ \A b \in Backends : WF_vars(ResetTimer(b))

\* ======================================================== the claims
\* steps the formulas speak of
Failed(s) ==
    \/ \E status \in BackendStatuses : ~validateStatus(status) /\ BackendReply(s, status)
    \/ NetworkFailure(s)
    \/ CallTimeout(s)
Succeeded(s) ==
    \E status \in BackendStatuses : validateStatus(status) /\ BackendReply(s, status)
\* the request passes the limiter and authentication and reaches the breaker
Reaches(k, route, auth) ==
    /\ ~OverLimit(Increment(hits[k]))
    /\ route \in Forwarded
    /\ route \in Protected => BearerShaped(auth) /\ VerifyOk(auth)
StateOf(b) == breaker[b].state
StatsOf(b) == Stats(breaker[b].window)

C2_OpenShortCircuits ==
    [][\A k \in Keys, route \in Routes, auth \in AuthHeaders :
         (Request(k, route, auth) /\ Reaches(k, route, auth)
            /\ StateOf(Target(route)) = "OPEN")
            => /\ calls' = calls
               /\ out'.status = 503 /\ out'.code = "SERVICE_UNAVAILABLE"]_vars

\* a request has just been short-circuited at an open breaker whose timer
\* still runs
C2_Witness ==
    \E b \in Backends :
        /\ StateOf(b) = "OPEN" /\ breaker[b].resetIn > 0
        /\ breaker[b].window[1].rejects > 0
        /\ out.status = 503 /\ out.b = b /\ out.ev = "response"
        /\ InFlight(b) = {}

\* C3 as stated: a closed breaker opens only once at least two calls have
\* been observed in the rolling sample (a single failed call leaves it closed)
C3_MinimumSample ==
    [][\A b \in Backends :
         (StateOf(b) = "CLOSED" /\ StateOf(b)' = "OPEN") => StatsOf(b)'.fires >= 2]_vars

\* C4: the first call to reach a half-open breaker is passed on as the trial
\* and every call that reaches it before the trial has settled is
\* short-circuited: a half-open breaker never has two calls in flight
C4_OneTrial ==
    /\ [](\A b \in Backends :
            StateOf(b) = "HALF_OPEN"
               => /\ Cardinality(InFlight(b)) <= 1
                  /\ breaker[b].pendingClose <=> InFlight(b) = {}
                  /\ \A s \in InFlight(b) : calls[s].trial)
    /\ [][\A k \in Keys, route \in Routes, auth \in AuthHeaders :
            (Request(k, route, auth) /\ Reaches(k, route, auth)
               /\ StateOf(Target(route)) = "HALF_OPEN")
               => IF InFlight(Target(route)) = {}
                  THEN /\ Cardinality(InFlight(Target(route))') = 1
                       /\ out'.ev = "forward" /\ out'.trial
                  ELSE /\ calls' = calls
                       /\ out'.status = 503 /\ out'.code = "SERVICE_UNAVAILABLE"]_vars

\* a call has just been short-circuited while the trial is in flight
C4_Witness ==
    \E b \in Backends :
        /\ StateOf(b) = "HALF_OPEN" /\ ~breaker[b].pendingClose
        /\ \E s \in InFlight(b) : calls[s].trial
        /\ out.status = 503 /\ out.b = b /\ breaker[b].window[1].rejects > 0

\* C5: when the trial call succeeds the breaker closes and no failure is
\* left in its counters
C5_TrialSuccessCloses ==
    [][\A s \in Slots : \A b \in Backends :
         (Succeeded(s) /\ calls[s].backend = b /\ StateOf(b) = "HALF_OPEN")
            => /\ calls[s].trial
               /\ StateOf(b)' = "CLOSED"
               /\ StatsOf(b)'.failures = 0
               /\ ~Rejects(breaker[b])']_vars

\* the trial has just been answered 404 and the breaker is closed
C5_Witness ==
    \E b \in Backends :
        /\ out.trial /\ out.b = b /\ out.status = 404 /\ out.body = "backend"
        /\ StateOf(b) = "CLOSED" /\ StatsOf(b).failures = 0

\* C6: when the trial call fails the breaker opens again with a full
\* open-duration ahead; an open breaker passes no call on, its timer runs
\* down only with the clock and it leaves OPEN only when the timer is at zero
C6_TrialFailureReopens ==
    [][\A b \in Backends :
         /\ \A s \in Slots :
              (Failed(s) /\ calls[s].backend = b /\ StateOf(b) = "HALF_OPEN")
                 => /\ calls[s].trial
                    /\ StateOf(b)' = "OPEN"
                    /\ breaker[b].resetIn' = ResetTicks
         /\ StateOf(b) = "OPEN"
              => /\ InFlight(b)' \subseteq InFlight(b)
                 /\ \A s \in InFlight(b)' : calls[s]'.age >= calls[s].age
                 /\ breaker[b].resetIn' >= breaker[b].resetIn - 1
                 /\ breaker[b].resetIn' < breaker[b].resetIn => out'.ev = "tick"
                 /\ StateOf(b)' # "OPEN"
                       => breaker[b].resetIn = 0 /\ StateOf(b)' = "HALF_OPEN"]_vars

\* the trial has just timed out and the breaker is open with the whole
\* open-duration ahead
C6_Witness ==
    \E b \in Backends :
        /\ out.trial /\ out.b = b /\ out.status = 503
        /\ StateOf(b) = "OPEN" /\ breaker[b].resetIn = ResetTicks
        /\ breaker[b].window[1].timeouts = 1

\* C7: a 4xx answer of the backend is counted as a success, leaves the
\* failure count as it is and opens no breaker
C7_ClientErrorsAreSuccesses ==
    [][\A s \in Slots : \A status \in BackendStatuses : \A b \in Backends :
         (BackendReply(s, status) /\ status >= 400 /\ status < 500 /\ calls[s].backend = b)
            => /\ StatsOf(b)'.failures = StatsOf(b).failures
               /\ StatsOf(b)'.successes = StatsOf(b).successes + 1
               /\ StateOf(b)' = "OPEN" => StateOf(b) = "OPEN"
               /\ out'.status = status]_vars

\* every call of a full window was answered 404 and the breaker is closed
C7_Witness ==
    \E b \in Backends :
        /\ out.status = 404 /\ out.b = b
        /\ StateOf(b) = "CLOSED"
        /\ StatsOf(b).successes = MaxFires /\ StatsOf(b).failures = 0

\* C8: the limiter keeps one fixed window per client key: a key with no
\* window, or whose window has run out, is admitted and gets a fresh window
\* of 15 minutes with count 1; inside its window the count goes up by one
\* and the request is rejected exactly when max requests of the key were
\* counted before it; the other keys' windows are untouched
C8_FixedWindowPerKey ==
    [][\A k \in Keys, route \in Routes, auth \in AuthHeaders :
         Request(k, route, auth)
            => /\ \A j \in Keys \ {k} : hits'[j] = hits[j]
               /\ IF hits[k].ttl = 0
                  THEN /\ hits'[k].totalHits = 1
                       /\ hits'[k].ttl * TickMs = 15 * 60 * 1000
                       /\ out'.status # 429
                  ELSE /\ hits'[k].totalHits = hits[k].totalHits + 1
                       /\ hits'[k].ttl = hits[k].ttl
                       /\ out'.status = 429 <=> hits[k].totalHits >= 100]_vars

\* the first client's 101st request was rejected half a window after its
\* window began, and the second client is in the first half of a window of
\* its own
C8_Witness ==
    /\ hits["ip1"].totalHits = 101 /\ hits["ip1"].ttl = LimiterTicks \div 2
    /\ out.status = 429
    /\ hits["ip2"].totalHits = 1 /\ hits["ip2"].ttl = LimiterTicks

C10_RejectionIsTerminal ==
    [][\A k \in Keys, route \in Routes, auth \in AuthHeaders :
         (Request(k, route, auth) /\ out'.status \in {401, 403, 429})
            => /\ breaker' = breaker
               /\ calls' = calls
               /\ out'.b = "-"]_vars

\* a request has just been rejected by the limiter while a call is in
\* flight at a breaker that has counted a failure
C10_Witness ==
    /\ out.status = 429
    /\ \E b \in Backends : InFlight(b) # {} /\ StatsOf(b).failures > 0

\* a request has just been rejected by authentication while a breaker is open
C10_WitnessAuth ==
    /\ out.status = 403
    /\ \E b \in Backends : StateOf(b) = "OPEN"

C12_IdentityFromToken ==
    /\ [](out.ev = "forward" => out.sent.authorization = Absent)
    /\ [][\A k \in Keys, route \in Protected, h \in Inbound :
            (Handle(k, route, "bearer_valid", h) /\ out'.ev = "forward")
               => /\ out'.sent.xUserId = h.id
                  /\ out'.sent.xUserRoles =
                        IF h.roles = <<"user">> THEN "user" ELSE "user,admin"]_vars

\* a request to the orders backend has just been forwarded for the admin u2
C12_Witness ==
    /\ out.ev = "forward" /\ out.route = "/v1/orders" /\ out.b = "orders"
    /\ out.sent = [authorization |-> Absent, xUserId |-> "u2", xUserRoles |-> "user,admin"]

\* C19 as stated: the identity headers of an outbound request are absent or
\* the claims of the token verified for the request; on the public route,
\* where no token is verified, they are absent
C19_IdentityOnlyFromVerification ==
    [][\A k \in Keys, route \in Forwarded, auth \in AuthHeaders, h \in Inbound :
         (Handle(k, route, auth, h) /\ out'.ev = "forward")
            => IF route \in Protected
               THEN /\ out'.sent.xUserId \in {Absent, h.id}
                    /\ out'.sent.xUserRoles \in {Absent, Join(h.roles)}
               ELSE /\ out'.sent.xUserId = Absent
                    /\ out'.sent.xUserRoles = Absent]_vars

\* C13 as stated: every rejection the gateway writes itself (401, 403, 429,
\* 500, 503) has the JSON envelope { error: { code, message } } as its body
C13_RejectionsAreEnvelopes ==
    (/\ out.ev = "response"
     /\ out.status \in {401, 403, 429, 500, 503}
     /\ out.body \notin {"backend", "backend_quoted"})
        => out.body = "envelope"

\* C14 as stated: when the backend answers a forwarded call with a 2xx or
\* 4xx status, the response to the client has that status and that body,
\* unchanged
C14_ClientErrorsPassThrough ==
    [][\A s \in Slots, status \in BackendStatuses :
         (BackendReply(s, status) /\ status < 500)
            => out'.status = status /\ out'.body = "backend"]_vars

\* C15 as stated: a call that ends with a 5xx status, a network failure or a
\* timeout is counted as one failure of its breaker and answered with the
\* backend's status when it sent one, with 503 when it sent none
C15_ServerErrorsResurface ==
    [][\A s \in Slots, b \in Backends :
         (Failed(s) /\ calls[s].backend = b)
            => /\ StatsOf(b)'.failures = StatsOf(b).failures + 1
               /\ \A status \in BackendStatuses :
                     BackendReply(s, status) => out'.status = status
               /\ (NetworkFailure(s) \/ CallTimeout(s)) => out'.status = 503]_vars

\* the slots in which the step started an outbound call
Started == {s \in Slots : ~calls[s].busy /\ calls'[s].busy}

\* C16: a request that passes the limiter and authentication and finds its
\* breaker letting calls through starts exactly one outbound call, to the
\* backend of its route; a request that does not starts none; the end of a
\* call (reply, network failure, timeout) removes the call and starts no
\* other one, and neither does a timer or the clock.  So the calls that were
\* settled within the breakers' rolling windows and those in flight never
\* outnumber the requests received
C16_OneCallPerRequest ==
    /\ [][/\ \A k \in Keys, route \in Routes, auth \in AuthHeaders :
               Request(k, route, auth)
                  => IF Reaches(k, route, auth) /\ ~Rejects(breaker[Target(route)])
                     THEN \E s \in Slots :
                             /\ Started = {s}
                             /\ calls'[s].backend = Target(route)
                             /\ \A t \in Slots \ {s} : calls'[t] = calls[t]
                     ELSE calls' = calls
          /\ \A s \in Slots :
               (Failed(s) \/ Succeeded(s)) => Started = {} /\ calls'[s] = NoCall
          /\ Started # {} => out'.ev = "forward"]_vars
    /\ [](StatsOf("users").successes + StatsOf("users").failures
            + StatsOf("orders").successes + StatsOf("orders").failures
            + Cardinality({s \in Slots : calls[s].busy})
          <= hits["ip1"].totalHits + hits["ip2"].totalHits)

\* the client's requests all failed, each after one call, and the last of
\* them timed out
C16_Witness ==
    /\ hits["ip1"].totalHits = 2
    /\ StatsOf("users").fires = 2 /\ StatsOf("users").failures = 2
    /\ StatsOf("users").timeouts = 1
    /\ \A s \in Slots : ~calls[s].busy

\* C17 as stated: the count stored for a client key is never negative and
\* never above the limit
C17_CountWithinLimit ==
    \A k \in Keys : hits[k].totalHits >= 0 /\ hits[k].totalHits <= 100

\* C17 amended: the stored count is never negative and counts every request
\* of the key in its window, the rejected ones too: a request that finds the
\* count at or above the limit is rejected with 429 and raises the count by
\* one all the same, and a request is admitted only while the count, itself
\* included, is at most the limit
C17_CountKeepsCounting ==
    /\ [](\A k \in Keys : hits[k].totalHits >= 0)
    /\ [][\A k \in Keys, route \in Routes, auth \in AuthHeaders :
            Request(k, route, auth)
               => /\ (hits[k].ttl > 0 /\ hits[k].totalHits >= 100)
                        => /\ out'.status = 429
                           /\ hits'[k].totalHits = hits[k].totalHits + 1
                  /\ out'.status # 429 => hits'[k].totalHits <= 100]_vars

\* the first client's second request beyond the limit has just been rejected
\* and counted
C17_Witness ==
    /\ out.status = 429
    /\ hits["ip1"].totalHits = max + 2

\* C18: however the steps of requests handled together interleave, no update
\* is lost or made twice.  Of the K requests of a key counted in its window,
\* those let through and those still to be decided that will be let through
\* number min(K, 100); a decision leaves the count as it is.  The end of a
\* call adds exactly one to the successes or to the failures of its breaker,
\* takes the call away and leaves the other breaker and the calls fired as
\* they were
C18_NoLostUpdates ==
    /\ [](\A k \in Keys :
            hits[k].ttl > 0 =>
               admitted[k] + Cardinality({w \in waiting : w.k = k /\ w.info.totalHits <= 100})
                  = Min(hits[k].totalHits, 100))
    /\ [][\A w \in waiting : Decide(w) => hits' = hits]_vars
    /\ [][\A s \in Slots, b \in Backends :
            ((Failed(s) \/ Succeeded(s)) /\ calls[s].backend = b)
               => /\ StatsOf(b)'.successes + StatsOf(b)'.failures
                        = StatsOf(b).successes + StatsOf(b).failures + 1
                  /\ StatsOf(b)'.successes = StatsOf(b).successes + 1 <=> Succeeded(s)
                  /\ StatsOf(b)'.fires = StatsOf(b).fires
                  /\ Cardinality(InFlight(b))' = Cardinality(InFlight(b)) - 1
                  /\ \A c \in Backends \ {b} : breaker'[c] = breaker[c]]_vars

\* the 101st request was counted before the 100th was decided; both are
\* decided now, 100 requests were let through, and of two calls that were in
\* flight together one has succeeded and one has failed
C18_Witness ==
    /\ waiting = {}
    /\ hits["ip1"].totalHits = max + 1 /\ admitted["ip1"] = max
    /\ out.status # 429
    /\ \E b \in Backends : StatsOf(b).successes = 1 /\ StatsOf(b).failures = 1

\* C20: there is one breaker per backend.  The end of a call changes the
\* breaker of the call's backend only, and so does a request: one that gets
\* to a breaker by /v1/auth or /v1/users is fired at the users breaker, one
\* by /v1/orders at the orders breaker, the other breaker staying as it was.
\* The users breaker counts the calls of both its routes together: a call of
\* either route that fails as the only call fired in the rolling window
\* leaves it open, and a request of either route that finds it open is
\* answered 503 without a call
C20_BreakerPerBackend ==
    /\ [][\A s \in Slots, b \in Backends :
            ((Failed(s) \/ Succeeded(s)) /\ calls[s].backend = b)
               => /\ \A c \in Backends \ {b} : breaker'[c] = breaker[c]
                  /\ b = "users" <=> calls[s].route \in {"/v1/auth", "/v1/users"}
                  /\ b = "orders" <=> calls[s].route = "/v1/orders"]_vars
    /\ [][\A k \in Keys, route \in Forwarded, auth \in AuthHeaders :
            (Request(k, route, auth) /\ Reaches(k, route, auth))
               => LET b == IF route = "/v1/orders" THEN "orders" ELSE "users" IN
                  /\ StatsOf(b)'.fires = StatsOf(b).fires + 1
                  /\ \A c \in Backends \ {b} : breaker'[c] = breaker[c]
                  /\ StateOf(b) = "OPEN" => out'.status = 503 /\ calls' = calls]_vars
    /\ [][\A s \in Slots, route \in {"/v1/auth", "/v1/users"} :
            (Failed(s) /\ calls[s].route = route /\ StatsOf("users").fires = 1)
               => StateOf("users")' = "OPEN"]_vars

\* a call of /v1/auth has just failed and left the users breaker open, which
\* has since short-circuited nothing; a call to the orders backend is in
\* flight and the orders breaker is closed with no failure counted
C20_Witness ==
    /\ out.route = "/v1/auth" /\ out.status = 503 /\ out.upstream = 500
    /\ StateOf("users") = "OPEN" /\ StatsOf("users").failures = 1
    /\ StateOf("orders") = "CLOSED" /\ StatsOf("orders").failures = 0
    /\ InFlight("orders") # {}


\* ---------------------------------------------------------------------
\* the ids the logger has given out so far, as they go on the wire
GivenOut == {ToString(n) : n \in 1 .. nextReqId}

\* C21: every outbound request carries an x-request-id: the inbound
\* request's x-request-id when the client supplied one, and a freshly
\* generated id, given to no earlier request, when the client supplied none
C21_CorrelationId ==
    [][\A route \in Routes, auth \in AuthHeaders, x \in ClientRequestIds :
          (Receive("ip1", route, auth, Plain, x) /\ out'.ev = "forward")
              => /\ Truthy(out'.rid)
                 /\ Truthy(x)  => out'.rid = x
                 /\ ~Truthy(x) => out'.rid \notin GivenOut]_vars

\* ---------------------------------------------------------------------
\* the last request to the orders service came from a caller without the
\* admin role
ByNonAdmin(r) == Truthy(r.caller) /\ ~includes(r.roles, "admin")
\* an order that is another user's than the caller's of reply r
Foreign(db, o, r) == db[o] # NoOrder /\ db[o].userId # r.caller

\* C22: in the orders service, whatever was created, updated and deleted
\* before, a caller without the admin role is never returned an order whose
\* userId differs from the caller's x-user-id, neither in the list nor by id
\* (asking for a foreign order by id yields 403), and a request of such a
\* caller never changes a foreign order
C22_ForeignOrdersOutOfReach ==
    /\ [](ByNonAdmin(reply) => \A order \in reply.orders : order.userId = reply.caller)
    /\ [][(/\ reply'.op = "get"
            /\ ByNonAdmin(reply')
            /\ Foreign(ordersDB, reply'.target, reply'))
               => reply'.status = 403 /\ reply'.code = "FORBIDDEN"]_vars
    /\ [][ByNonAdmin(reply')
             => \A o \in OrderIds : Foreign(ordersDB, o, reply') => ordersDB'[o] = ordersDB[o]]_vars

\* a user without the admin role has asked to update another user's order,
\* was answered 403, and the order is as it was created
C22_Witness ==
    /\ reply.op = "update" /\ reply.status = 403
    /\ ByNonAdmin(reply) /\ reply.roles = <<"administrator">>
    /\ Foreign(ordersDB, reply.target, reply)
    /\ ordersDB[reply.target].status = "created"
    /\ \E o \in OrderIds : Stored(o) /\ ordersDB[o].userId = reply.caller

\* ---------------------------------------------------------------------
\* C23: in the users service no two stored users ever share an email,
\* however concurrent POST /register requests with the same email are
\* interleaved: at most one of them creates a user
C23_NoSharedEmail ==
    \A u \in usersDB, v \in usersDB : u.email = v.email => u = v

\* ---------------------------------------------------------------------
\* the slots whose outbound call the step ended
Ended == {s \in Slots : calls[s].busy /\ ~calls'[s].busy}
\* the step took a request in
TakesIn ==
    \/ \E route \in Routes, auth \in AuthHeaders : Request("ip1", route, auth)
    \/ BadBody("ip1")

\* C24: every inbound request receives exactly one response, on every path.
\* A request is answered in the step that takes it in (401, 403, 429, the
\* gateway's own routes, a short-circuited call) or else it starts one
\* outbound call and is not answered yet; the end of a call (reply, network
\* failure, timeout) writes one response, that of its request, and ends no
\* other call; nothing else writes a response; and every call in flight
\* comes to its end, so its request is answered
C24_AnsweredOnceAndForAll ==
    /\ [][TakesIn => /\ Ended = {}
                      /\ \/ out'.status # 0 /\ Started = {}
                         \/ out'.status = 0 /\ Cardinality(Started) = 1]_vars
    /\ [][\A s \in Slots : s \in Ended
             => /\ out'.status # 0
                /\ Ended = {s} /\ Started = {}
                /\ calls'[s] = NoCall]_vars
    /\ [][out'.status # 0 => TakesIn \/ Ended # {}]_vars
    /\ \A s \in Slots : calls[s].busy ~> ~calls[s].busy

\* the client's last request within its quota was forwarded, the backend
\* did not answer, and after 5 s the request was answered 503
C24_Witness ==
    /\ hits["ip1"].totalHits = max
    /\ out.ev = "response" /\ out.status = 503 /\ out.upstream = 0
    /\ out.route \in Forwarded
    /\ \E b \in Backends : StatsOf(b).timeouts = 1 /\ StatsOf(b).fires = 1
    /\ \A s \in Slots : ~calls[s].busy

====
